---- MODULE Spec2Model ----
(***************************************************************************)
(* A model of rating_csv.py: the conversion of XBRL credit-rating          *)
(* documents (ROCR taxonomy), packed in a ZIP archive, to CSV rows.        *)
(*                                                                         *)
(*   element_to_records   the tree flattener          (lines 129-159)      *)
(*   filter_asof          the as-of filter            (lines 162-184)      *)
(*   xml_to_records       the per-document extractor  (lines 103-126)      *)
(*   ratings_to_csv       the export driver           (lines 74-100)       *)
(*                                                                         *)
(* Python values are modelled as follows.  A str is a TLA+ string, None is *)
(* the reserved string None below (no text of any input equals it).  A     *)
(* dict[str, str] is a function from a finite set of strings; a dict whose *)
(* iteration order matters (by_type, the field dictionaries) is a sequence *)
(* of <<key, value>> pairs in insertion order.  An Element is a record     *)
(* [tag, text, kids] with kids the sequence of its children.  A function   *)
(* that may raise returns a record with an exc field (NoExc when it        *)
(* returned normally).                                                     *)
(***************************************************************************)
EXTENDS Integers, Sequences, FiniteSets, TLC

VARIABLES
    \* ---- ratings_to_csv (the export driver) ----
    pc,           \* position in ratings_to_csv
    archive,      \* the ZIP archive: zip_file.namelist() with each entry's content
    rating_type,  \* argument rating_type
    asof,         \* argument asof: None or a date
    fieldnames,   \* local fieldnames
    csv_file,     \* state of the output file: "unopened", "open", "closed"
    zip_file,     \* state of the archive handle: "unopened", "open", "closed"
    file,         \* the per-entry streams that are open (indices into archive)
    idx,          \* index of the entry the for loop is at
    tree,         \* local tree of the loop body (NoElement when unset)
    records,      \* rows of the current entry still to be written by writerows
    csv,          \* lines written to the output file, each [src, cells]
    exc,          \* the exception propagating out of ratings_to_csv (NoExc: none)
    opened,       \* history: indices of the entries whose stream has been opened
    swallowed,    \* history: indices of the entries whose UnicodeEncodeError was swallowed
    \* ---- the pure functions, applied to drawn inputs ----
    element,      \* the argument Element (xml_to_records: the document's root)
    in_records,   \* filter_records: the argument records
    fn_asof,      \* the cutoff (NoDate: no transformation)
    fn_type,      \* xml_to_records: the argument rating_type
    called,       \* which function has been applied ("none" before)
    result        \* what it returned: [exc, records]

driver_vars == <<pc, archive, rating_type, asof, fieldnames, csv_file, zip_file,
                 file, idx, tree, records, csv, exc, opened, swallowed>>
fn_vars == <<element, in_records, fn_asof, fn_type, called, result>>
vars == <<driver_vars, fn_vars>>

-----------------------------------------------------------------------------
(* Python values *)

None == "<None>"
NoExc == "<no exception>"

EmptyDict == [k \in {} |-> None]

\* dict.get(key): None when the key is absent
Get(d, k) == IF k \in DOMAIN d THEN d[k] ELSE None

\* d[key] = value
Put(d, k, v) == [x \in DOMAIN d \cup {k} |-> IF x = k THEN v ELSE d[x]]

Reverse(s) == [i \in 1..Len(s) |-> s[Len(s) + 1 - i]]

Range(s) == {s[i] : i \in 1..Len(s)}

-----------------------------------------------------------------------------
(* Module constants, lines 13-69 *)

RATINGS_NAMESPACE == "{http://xbrl.sec.gov/ratings/2015-03-31}"

Q(local) == RATINGS_NAMESPACE \o local

\* SEQUENCE_TAGS.get(tag)
SEQUENCE_TAGS(tag) ==
    CASE tag = Q("OD") -> Q("ORD")
      [] tag = Q("ISD") -> Q("IND")
      [] tag = Q("IND") -> Q("IRD")
      [] OTHER -> None

AGENCY_FIELDS ==
    << <<"RAN", "rating_agency_name">>, <<"FCD", "file_creation_date">> >>

OBLIGOR_FIELDS ==
    << <<"OSC", "obligor_subclass">>, <<"OIG", "obligor_industry_group">>,
       <<"OBNAME", "obligor_name">>, <<"LEI", "legal_entity_identifier">>,
       <<"CIK", "central_index_key">>, <<"OI", "obligor_identifier">>,
       <<"OIS", "obligor_identifier_schema">>,
       <<"OIOS", "obligor_identifier_other_schema">> >>

ISSUER_FIELDS ==
    << <<"SSC", "sec_subcategory">>, <<"IG", "industry_group">>,
       <<"ISSNAME", "issuer_name">>, <<"ISI", "issuer_identifier">>,
       <<"ISIS", "issuer_identifier_scheme">>,
       <<"ISIOS", "issuer_identifier_other_scheme">>, <<"OBT", "object_type">>,
       <<"INSTNAME", "instrument_name">>, <<"CUSIP", "cusip">>,
       <<"INI", "instrument_identifier">>,
       <<"INIS", "instrument_identifier_scheme">>,
       <<"INIOS", "instrument_identifier_other_scheme">>,
       <<"IRTD", "interest_rate_type_description">>, <<"CR", "coupon_rate">>,
       <<"MD", "maturity_date">>, <<"PV", "par_value">>,
       <<"ISUD", "issuance_date">>, <<"RODC", "other_debt_category">> >>

RATING_FIELDS ==
    << <<"IP", "issuer_paid">>, <<"R", "rating">>,
       <<"RAD", "rating_action_date">>,
       <<"RAC", "rating_action_classification">>, <<"WST", "watch_status">>,
       <<"ROL", "rating_outlook">>, <<"OAN", "other_announcement">>,
       <<"RT", "rating_type">>, <<"RST", "rating_subtype">>,
       <<"RTT", "rating_type_term">> >>

\* list(d): the keys of an ordered dict, in insertion order
Keys(d) == [i \in 1..Len(d) |-> d[i][1]]

RECURSIVE DictUnionFrom(_, _, _)
DictUnionFrom(acc, b, i) ==
    IF i > Len(b) THEN acc
    ELSE IF \E j \in 1..Len(acc) : acc[j][1] = b[i][1]
         THEN DictUnionFrom(
                  [j \in 1..Len(acc) |->
                      IF acc[j][1] = b[i][1] THEN b[i] ELSE acc[j]], b, i + 1)
         ELSE DictUnionFrom(Append(acc, b[i]), b, i + 1)

\* a | b on dicts: a's items in order, b's value on a shared key, then b's new keys
DictUnion(a, b) == DictUnionFrom(a, b, 1)

-----------------------------------------------------------------------------
(* date.fromisoformat and the comparison of dates *)

Digit(c) ==
    CASE c = "0" -> 0 [] c = "1" -> 1 [] c = "2" -> 2 [] c = "3" -> 3
      [] c = "4" -> 4 [] c = "5" -> 5 [] c = "6" -> 6 [] c = "7" -> 7
      [] c = "8" -> 8 [] c = "9" -> 9 [] OTHER -> -1

\* the number written in s[i..j], or -1 when a character is no digit
RECURSIVE Number(_, _, _)
Number(s, i, j) ==
    IF i > j THEN 0
    ELSE LET hi == Number(s, i, j - 1)
             lo == Digit(SubSeq(s, j, j))
         IN  IF hi < 0 \/ lo < 0 THEN -1 ELSE 10 * hi + lo

IsLeap(y) == (y % 4 = 0 /\ y % 100 # 0) \/ y % 400 = 0

DaysInMonth(y, m) ==
    CASE m \in {4, 6, 9, 11} -> 30
      [] m = 2 -> IF IsLeap(y) THEN 29 ELSE 28
      [] OTHER -> 31

\* date.fromisoformat(s) for the extended format YYYY-MM-DD: [exc, date],
\* the date as <<year, month, day>>
fromisoformat(s) ==
    IF s = None THEN [exc |-> "TypeError", date |-> <<>>]
    ELSE IF Len(s) # 10 \/ SubSeq(s, 5, 5) # "-" \/ SubSeq(s, 8, 8) # "-"
    THEN [exc |-> "ValueError", date |-> <<>>]
    ELSE LET y == Number(s, 1, 4)
             m == Number(s, 6, 7)
             d == Number(s, 9, 10)
         IN  IF y < 1 \/ m < 1 \/ m > 12 \/ d < 1
             THEN [exc |-> "ValueError", date |-> <<>>]
             ELSE IF d > DaysInMonth(y, m)
             THEN [exc |-> "ValueError", date |-> <<>>]
             ELSE [exc |-> NoExc, date |-> <<y, m, d>>]

\* a < b on dates
DateLess(a, b) ==
    \/ a[1] < b[1]
    \/ a[1] = b[1] /\ a[2] < b[2]
    \/ a[1] = b[1] /\ a[2] = b[2] /\ a[3] < b[3]

-----------------------------------------------------------------------------
(* filter_asof, lines 162-184 *)

\* asof is None / transformation is None
NoDate == <<>>
NoTransformation == <<>>

\* the closure filter_asof returns: filter_records with its captured asof
filter_asof(cutoff) == <<"filter_records", cutoff>>

rating_detail_tags == {Q("OD"), Q("IND")}

\* a variant of line 172 that also drops a rating dated on the cutoff (rad >= asof)
IsAfterAsof_Inclusive(rad, cutoff) == ~DateLess(rad, cutoff)

\* line 172, rad > asof: the rating is after the asof date
IsAfterAsof(rad, cutoff) == DateLess(cutoff, rad)

\* by_type.get(key): the position of key in by_type, 0 for None
ByTypeFind(by_type, key) ==
    IF \E j \in 1..Len(by_type) : by_type[j][1] = key
    THEN CHOOSE j \in 1..Len(by_type) : by_type[j][1] = key
    ELSE 0

\* by_type[key] = record: a new key is appended, a present key keeps its place
ByTypePut(by_type, key, record) ==
    LET j == ByTypeFind(by_type, key)
    IN  IF j = 0 THEN Append(by_type, <<key, record>>)
        ELSE [by_type EXCEPT ![j] = <<key, record>>]

\* a variant of line 177 that also replaces on an equal date (<=)
IsMostRecent_OrEqual(by_type, j, rad) ==
    j = 0 \/ ~DateLess(rad, fromisoformat(by_type[j][2]["RAD"]).date)

\* line 177, old is None or date.fromisoformat(old["RAD"]) < rad
IsMostRecent(by_type, j, rad) ==
    j = 0 \/ DateLess(fromisoformat(by_type[j][2]["RAD"]).date, rad)

\* line 175
RatingKey(record) == <<Get(record, "RT"), Get(record, "RST"), Get(record, "RTT")>>

\* the loop of lines 170-179 from record i on, then line 180
RECURSIVE FilterLoop(_, _, _, _)
FilterLoop(recs, i, cutoff, by_type) ==
    IF i > Len(recs)
    THEN [exc |-> NoExc, records |-> [j \in 1..Len(by_type) |-> by_type[j][2]]]
    ELSE LET record == recs[i]
         IN  IF "RAD" \notin DOMAIN record
             THEN [exc |-> "KeyError", records |-> <<>>]
             ELSE LET rad == fromisoformat(record["RAD"])
                      key == RatingKey(record)
                      old == ByTypeFind(by_type, key)
                  IN  IF rad.exc # NoExc
                      THEN [exc |-> rad.exc, records |-> <<>>]
                      ELSE IF IsAfterAsof(rad.date, cutoff)
                      THEN FilterLoop(recs, i + 1, cutoff, by_type)
                      ELSE IF IsMostRecent(by_type, old, rad.date)
                      THEN FilterLoop(recs, i + 1, cutoff,
                                      ByTypePut(by_type, key, record))
                      ELSE FilterLoop(recs, i + 1, cutoff, by_type)

filter_records(recs, elem, cutoff) ==
    IF elem.tag \in rating_detail_tags
    THEN FilterLoop(recs, 1, cutoff, <<>>)
    ELSE [exc |-> NoExc, records |-> recs]

-----------------------------------------------------------------------------
(* element_to_records, lines 129-159 *)

NamespaceLen == 40

\* line 148, e.tag[40:]
TagKey(tag) == SubSeq(tag, NamespaceLen + 1, Len(tag))

\* line 137, stack = list(element)[::-1]
InitialStack(elem) == Reverse(elem.kids)

\* a variant of line 145 that pushes the children unreversed
PushChildren_Unreversed(stack, e) == stack \o e.kids

\* line 145, stack.extend(list(e)[::-1])
PushChildren(stack, e) == stack \o Reverse(e.kids)

\* a variant of line 154 that keeps the record's own value on a shared key
UpdateRecord_KeepOwn(record, this) ==
    [k \in DOMAIN record \cup DOMAIN this |->
        IF k \in DOMAIN record THEN record[k] ELSE this[k]]

\* line 154, record.update(this)
UpdateRecord(record, this) ==
    [k \in DOMAIN record \cup DOMAIN this |->
        IF k \in DOMAIN this THEN this[k] ELSE record[k]]

\* a variant of lines 150-154 that returns the shared context when a sequence
\* container has no record
Finalize_KeepShared(sequence_tag, this, recs) ==
    IF sequence_tag = None \/ recs = <<>> THEN <<this>>
    ELSE [i \in 1..Len(recs) |->
             [k \in DOMAIN recs[i] \cup DOMAIN this |->
                 IF k \in DOMAIN this THEN this[k] ELSE recs[i][k]]]

\* lines 150-154
Finalize(sequence_tag, this, recs) ==
    IF sequence_tag = None THEN <<this>>
    ELSE [i \in 1..Len(recs) |-> UpdateRecord(recs[i], this)]

\* lines 156-159
ApplyTransformation(transformation, recs, elem) ==
    IF transformation = NoTransformation
    THEN [exc |-> NoExc, records |-> recs]
    ELSE filter_records(recs, elem, transformation[2])

RECURSIVE element_to_records(_, _)
RECURSIVE Walk(_, _, _, _, _)

\* the while loop of lines 138-148: [exc, this, records] when the stack is empty
Walk(stack, this, recs, sequence_tag, transformation) ==
    IF stack = <<>> THEN [exc |-> NoExc, this |-> this, records |-> recs]
    ELSE LET e == stack[Len(stack)]
             rest == SubSeq(stack, 1, Len(stack) - 1)
         IN  IF e.tag = sequence_tag
             THEN LET sub == element_to_records(e, transformation)
                  IN  IF sub.exc # NoExc
                      THEN [exc |-> sub.exc, this |-> this, records |-> recs]
                      ELSE Walk(rest, this, recs \o sub.records,
                                sequence_tag, transformation)
             ELSE IF Len(e.kids) > 0
             THEN Walk(PushChildren(rest, e), this, recs,
                       sequence_tag, transformation)
             ELSE Walk(rest, Put(this, TagKey(e.tag), e.text), recs,
                       sequence_tag, transformation)

element_to_records(elem, transformation) ==
    LET sequence_tag == SEQUENCE_TAGS(elem.tag)
        walked == Walk(InitialStack(elem), EmptyDict, <<>>,
                       sequence_tag, transformation)
    IN  IF walked.exc # NoExc
        THEN [exc |-> walked.exc, records |-> <<>>]
        ELSE ApplyTransformation(
                 transformation,
                 Finalize(sequence_tag, walked.this, walked.records), elem)

-----------------------------------------------------------------------------
(* xml_to_records, lines 103-126 *)

\* the elements of a forest in document order (depth first, parents first)
RECURSIVE Preorder(_)
Preorder(kids) ==
    IF kids = <<>> THEN <<>>
    ELSE <<kids[1]>> \o Preorder(kids[1].kids) \o Preorder(Tail(kids))

\* a variant of root.find that returns the last match
FindFirst_Last(root, tag) ==
    LET below == Preorder(root.kids)
        hits == {i \in 1..Len(below) : below[i].tag = tag}
    IN  IF hits = {} THEN 0 ELSE CHOOSE i \in hits : \A j \in hits : j <= i

\* root.find(".//" + tag): the position, among the descendants of root in
\* document order, of the first one with the tag; 0 for None
FindFirst(root, tag) ==
    LET below == Preorder(root.kids)
        hits == {i \in 1..Len(below) : below[i].tag = tag}
    IN  IF hits = {} THEN 0 ELSE CHOOSE i \in hits : \A j \in hits : i <= j

\* root.findtext(".//" + tag): None without a match, "" for a match without text
FindText(root, tag) ==
    LET i == FindFirst(root, tag)
    IN  IF i = 0 THEN None
        ELSE IF Preorder(root.kids)[i].text = None THEN ""
        ELSE Preorder(root.kids)[i].text

\* lines 109-114: the tag searched for
RootTag(rtype) == IF rtype = "obligor" THEN Q("OD") ELSE Q("ISD")

\* line 117
Transformation(cutoff) ==
    IF cutoff = NoDate THEN NoTransformation ELSE filter_asof(cutoff)

\* lines 119-123
AttachAgency(root, recs) ==
    [i \in 1..Len(recs) |->
        Put(Put(recs[i], "RAN", FindText(root, Q("RAN"))),
            "FCD", FindText(root, Q("FCD")))]

xml_to_records(root, rtype, cutoff) ==
    IF rtype \notin {"obligor", "issuer"}
    THEN [exc |-> "ValueError", records |-> <<>>]
    ELSE LET i == FindFirst(root, RootTag(rtype))
         IN  IF i # 0
             THEN LET flat == element_to_records(Preorder(root.kids)[i],
                                                 Transformation(cutoff))
                  IN  IF flat.exc # NoExc THEN flat
                      ELSE [exc |-> NoExc,
                            records |-> AttachAgency(root, flat.records)]
             ELSE [exc |-> NoExc, records |-> <<>>]

-----------------------------------------------------------------------------
(* The inputs the functions are applied to *)

\* the largest number of elements of a tree given to element_to_records
MaxNodes == 5
\* the largest number of elements of a document given to xml_to_records
MaxDocNodes == 4
\* the longest list of records given to filter_records
MaxRecords == 3

Ratings == <<"AAA", "AA", "A", "BBB", "BB", "B", "CCC">>
TreeDates == <<"2022-06-01", "2023-06-01">>
ListDates == {"2022-06-01", "2023-06-01", "2023-06-02"}
Cutoffs == {<<2022, 12, 31>>, <<2023, 6, 1>>}

\* the text of a leaf: a rating or a date that depends on the leaf's position in
\* the document, so that the same tag carries different texts at different places
LeafText(local, pos) ==
    CASE local = "R" -> Ratings[((pos - 1) % Len(Ratings)) + 1]
      [] local = "RAD" -> TreeDates[(pos % Len(TreeDates)) + 1]
      [] OTHER -> None

Node(local, pos, kids) ==
    [tag |-> Q(local),
     text |-> IF kids = <<>> THEN LeafText(local, pos) ELSE None,
     kids |-> kids]

NoElement == [tag |-> None, text |-> None, kids |-> <<>>]

\* every sequence of sibling subtrees with n elements in all, tags from locals,
\* the first element at document position pos
RECURSIVE Forests(_, _, _)
Forests(n, pos, locals) ==
    IF n = 0 THEN {<<>>}
    ELSE UNION {
        {<<Node(t, pos, below)>> \o right :
            t \in locals,
            below \in Forests(k - 1, pos + 1, locals),
            right \in Forests(n - k, pos + k, locals)} : k \in 1..n}

Trees(root, locals, max) ==
    {Node(root, 1, below) :
        below \in UNION {Forests(n, 2, locals) : n \in 0..(max - 1)}}

FlattenInputs(max) ==
    Trees("OD", {"ORD", "GRP", "R"}, max)
        \cup Trees("ISD", {"IND", "IRD", "RAD"}, max)

ExtractInputs(max) ==
    Trees("ROCRA", {"OD", "ORD", "RAD", "RAN"}, max)
        \cup Trees("OD", {"OD", "ORD", "RAD", "RAN"}, max)

\* a record of a rating: its RAD (or none), one of the key fields (or none),
\* and a rating R that tells the records of a list apart
RatingRecord(rad, keyfield, i) ==
    LET r0 == Put(EmptyDict, "R", Ratings[((i - 1) % Len(Ratings)) + 1])
        r1 == IF rad = None THEN r0 ELSE Put(r0, "RAD", rad)
    IN  IF keyfield = None THEN r1 ELSE Put(r1, keyfield, "LT")

RECURSIVE RecordLists(_)
RecordLists(n) ==
    IF n = 0 THEN {<<>>}
    ELSE {Append(l, RatingRecord(rad, keyfield, n)) :
            l \in RecordLists(n - 1),
            rad \in ListDates \cup {None},
            keyfield \in {None, "RT", "RTT"}}

FilterInputs(max) == UNION {RecordLists(n) : n \in 0..max}

NoResult == [exc |-> NoExc, records |-> <<>>]

DriverIdle ==
    /\ pc = "idle" /\ archive = <<>> /\ rating_type = None /\ asof = NoDate
    /\ fieldnames = <<>> /\ csv_file = "unopened" /\ zip_file = "unopened"
    /\ file = {} /\ idx = 0 /\ tree = NoElement /\ records = <<>>
    /\ csv = <<>> /\ exc = NoExc /\ opened = {} /\ swallowed = {}

-----------------------------------------------------------------------------
(* SpecFilter: filter_records applied to every list of FilterInputs *)

InitFilter ==
    /\ DriverIdle
    /\ in_records \in FilterInputs(MaxRecords)
    /\ element \in {Node(t, 1, <<>>) : t \in {"OD", "IND", "ISD"}}
    /\ fn_asof \in Cutoffs
    /\ fn_type = None
    /\ called = "none"
    /\ result = NoResult

FilterRecords ==
    /\ called = "none"
    /\ called' = "filter_records"
    /\ result' = filter_records(in_records, element, fn_asof)
    /\ UNCHANGED <<driver_vars, element, in_records, fn_asof, fn_type>>

SpecFilter == InitFilter /\ [][FilterRecords]_vars

-----------------------------------------------------------------------------
(* SpecFlatten: element_to_records applied to every tree of FlattenInputs *)

InitFlatten ==
    /\ DriverIdle
    /\ in_records = <<>>
    /\ element \in FlattenInputs(MaxNodes)
    /\ fn_asof = NoDate
    /\ fn_type = None
    /\ called = "none"
    /\ result = NoResult

ElementToRecords ==
    /\ called = "none"
    /\ \E cutoff \in {NoDate} \cup Cutoffs :
        /\ fn_asof' = cutoff
        /\ result' = element_to_records(element, Transformation(cutoff))
    /\ called' = "element_to_records"
    /\ UNCHANGED <<driver_vars, element, in_records, fn_type>>

SpecFlatten == InitFlatten /\ [][ElementToRecords]_vars

-----------------------------------------------------------------------------
(* SpecExtract: xml_to_records applied to every document of ExtractInputs *)

InitExtract ==
    /\ DriverIdle
    /\ in_records = <<>>
    /\ element \in ExtractInputs(MaxDocNodes)
    /\ fn_asof = NoDate
    /\ fn_type = None
    /\ called = "none"
    /\ result = NoResult

XmlToRecords ==
    /\ called = "none"
    /\ \E rtype \in {"obligor", "issuer", "sovereign"},
          cutoff \in {NoDate} \cup Cutoffs :
        /\ fn_type' = rtype
        /\ fn_asof' = cutoff
        /\ result' = xml_to_records(element, rtype, cutoff)
    /\ called' = "xml_to_records"
    /\ UNCHANGED <<driver_vars, element, in_records>>

SpecExtract == InitExtract /\ [][XmlToRecords]_vars

-----------------------------------------------------------------------------
(* ratings_to_csv, lines 74-100, step by step *)

\* the most entries of an archive
MaxEntries == 2

\* a text the output file's encoding cannot encode (the file is opened with the
\* platform's default encoding, line 87)
Snowman == "U+2603"
Unencodable == {Snowman}

Leaf(local, text) == [tag |-> Q(local), text |-> text, kids |-> <<>>]
Inner(local, kids) == [tag |-> Q(local), text |-> None, kids |-> kids]

Rating(r, rad) == Inner("ORD", <<Leaf("R", r), Leaf("RAD", rad)>>)

\* an obligor document: two ratings of one obligor
ObligorDoc ==
    Inner("ROCRA",
          <<Leaf("RAN", "ACME Ratings"), Leaf("FCD", "2023-01-01"),
            Inner("OD", <<Leaf("OBNAME", "Obligor"),
                          Rating("BBB", "2022-06-01"),
                          Rating("A", "2023-06-01")>>)>>)

\* an obligor document whose second of three ratings cannot be encoded
SnowmanDoc ==
    Inner("ROCRA",
          <<Leaf("RAN", "ACME Ratings"),
            Inner("OD", <<Rating("AA", "2022-06-01"),
                          Inner("ORD", <<Leaf("R", Snowman),
                                         Leaf("RAD", "2022-06-01"),
                                         Leaf("RT", "LT")>>),
                          Inner("ORD", <<Leaf("R", "B"),
                                         Leaf("RAD", "2022-06-01"),
                                         Leaf("RST", "LT")>>)>>)>>)

\* an obligor document with a rating that has no date and a field that is no column
OddDoc ==
    Inner("ROCRA",
          <<Inner("OD", <<Inner("ORD", <<Leaf("R", "CCC")>>),
                          Inner("ORD", <<Leaf("NOTE", "n/a"),
                                         Leaf("RAD", "2022-06-01"),
                                         Leaf("RT", "LT")>>)>>)>>)

\* an issuer document: one instrument with two ratings
IssuerDoc ==
    Inner("ROCRA",
          <<Leaf("RAN", "ACME Ratings"),
            Inner("ISD", <<Leaf("ISSNAME", "Issuer"),
                           Inner("IND", <<Leaf("INSTNAME", "Bond"),
                                          Inner("IRD", <<Leaf("R", "BB"),
                                                         Leaf("RAD", "2022-06-01")>>),
                                          Inner("IRD", <<Leaf("R", "BBB"),
                                                         Leaf("RAD", "2022-06-01")>>)>>)>>)>>)

\* a document of neither kind
AuxiliaryDoc == Inner("ROCRA", <<Leaf("RAN", "ACME Ratings")>>)

\* an archive entry: its name, what etree.parse does with its bytes ("ok", or
\* the exception it raises), and the tree it returns
Entry(name, parse, doc) == [name |-> name, parse |-> parse, tree |-> doc]

Entries ==
    {Entry("obligor.xml", "ok", ObligorDoc),
     Entry("snowman.xml", "ok", SnowmanDoc),
     Entry("odd.xml", "ok", OddDoc),
     Entry("issuer.xml", "ok", IssuerDoc),
     Entry("auxiliary.xml", "ok", AuxiliaryDoc),
     Entry("malformed.xml", "ParseError", NoElement),
     Entry("encoding.xml", "UnicodeEncodeError", NoElement),
     Entry("obligor.xml.bak", "ok", ObligorDoc)}

RECURSIVE ArchivesOf(_)
ArchivesOf(n) ==
    IF n = 0 THEN {<<>>}
    ELSE {Append(a, e) : a \in ArchivesOf(n - 1), e \in Entries}

Archives(max) == UNION {ArchivesOf(n) : n \in 0..max}

FnIdle ==
    /\ element = NoElement /\ in_records = <<>> /\ fn_asof = NoDate
    /\ fn_type = None /\ called = "none" /\ result = NoResult

Init ==
    /\ pc = "start"
    /\ archive \in Archives(MaxEntries)
    /\ rating_type \in {"obligor", "issuer", "sovereign"}
    /\ asof \in {NoDate, <<2022, 12, 31>>}
    /\ fieldnames = <<>>
    /\ csv_file = "unopened"
    /\ zip_file = "unopened"
    /\ file = {}
    /\ idx = 0
    /\ tree = NoElement
    /\ records = <<>>
    /\ csv = <<>>
    /\ exc = NoExc
    /\ opened = {}
    /\ swallowed = {}
    /\ FnIdle

\* a variant of lines 81 and 83 with the rating fields first
FieldnamesFor_RatingFirst(rtype) ==
    IF rtype = "obligor"
    THEN Keys(DictUnion(DictUnion(RATING_FIELDS, AGENCY_FIELDS), OBLIGOR_FIELDS))
    ELSE Keys(DictUnion(DictUnion(RATING_FIELDS, AGENCY_FIELDS), ISSUER_FIELDS))

\* lines 81 and 83: list(AGENCY_FIELDS | <type fields> | RATING_FIELDS)
FieldnamesFor(rtype) ==
    IF rtype = "obligor"
    THEN Keys(DictUnion(DictUnion(AGENCY_FIELDS, OBLIGOR_FIELDS), RATING_FIELDS))
    ELSE Keys(DictUnion(DictUnion(AGENCY_FIELDS, ISSUER_FIELDS), RATING_FIELDS))

\* lines 80-85
SelectFieldnames ==
    /\ pc = "start"
    /\ IF rating_type \in {"obligor", "issuer"}
       THEN /\ fieldnames' = FieldnamesFor(rating_type)
            /\ pc' = "open_csv"
            /\ exc' = exc
       ELSE /\ exc' = "ValueError"
            /\ pc' = "raised"
            /\ fieldnames' = fieldnames
    /\ UNCHANGED <<archive, rating_type, asof, csv_file, zip_file, file, idx,
                   tree, records, csv, opened, swallowed, fn_vars>>

\* line 87: open(csv_path, "w") returns the file, or raises OSError
OpenCsv ==
    /\ pc = "open_csv"
    /\ \/ /\ csv_file' = "open"
          /\ pc' = "write_header"
          /\ exc' = exc
       \/ /\ exc' = "OSError"
          /\ pc' = "raised"
          /\ csv_file' = csv_file
    /\ UNCHANGED <<archive, rating_type, asof, fieldnames, zip_file, file, idx,
                   tree, records, csv, opened, swallowed, fn_vars>>

\* lines 88-89: the header line, from no entry (src 0)
WriteHeader ==
    /\ pc = "write_header"
    /\ csv' = Append(csv, [src |-> 0, cells |-> fieldnames])
    /\ pc' = "open_zip"
    /\ UNCHANGED <<archive, rating_type, asof, fieldnames, csv_file, zip_file,
                   file, idx, tree, records, exc, opened, swallowed, fn_vars>>

\* line 90: ZipFile(zip_path, "r") returns the archive, or raises (no such file,
\* not a ZIP file); the exception leaves the with block of the output file
OpenZip ==
    /\ pc = "open_zip"
    /\ \/ /\ zip_file' = "open"
          /\ pc' = "for"
          /\ exc' = exc
       \/ /\ exc' = "BadZipFile"
          /\ pc' = "exit_csv"
          /\ zip_file' = zip_file
    /\ UNCHANGED <<archive, rating_type, asof, fieldnames, csv_file, file, idx,
                   tree, records, csv, opened, swallowed, fn_vars>>

\* str.endswith
EndsWith(name, suffix) ==
    /\ Len(name) >= Len(suffix)
    /\ SubSeq(name, Len(name) - Len(suffix) + 1, Len(name)) = suffix

\* lines 91-93: the next name of the list, skipped unless it ends with ".xml"
NextFilename ==
    /\ pc = "for"
    /\ IF idx = Len(archive)
       THEN /\ pc' = "exit_zip"
            /\ idx' = idx
       ELSE /\ idx' = idx + 1
            /\ pc' = IF EndsWith(archive[idx + 1].name, ".xml")
                     THEN "open_entry" ELSE "for"
    /\ UNCHANGED <<archive, rating_type, asof, fieldnames, csv_file, zip_file,
                   file, tree, records, csv, exc, opened, swallowed, fn_vars>>

\* line 95: zip_file.open(filename)
OpenEntry ==
    /\ pc = "open_entry"
    /\ file' = file \cup {idx}
    /\ opened' = opened \cup {idx}
    /\ pc' = "parse"
    /\ UNCHANGED <<archive, rating_type, asof, fieldnames, csv_file, zip_file,
                   idx, tree, records, csv, exc, swallowed, fn_vars>>

\* a variant of line 95 without the with block: the stream is never closed
ExitStream_Leak(streams, i) == streams

\* line 95, leaving the with block of the stream, normally or by an exception
ExitStream(streams, i) == streams \ {i}

\* line 96 and the end of the with block of line 95: etree.parse returns the
\* tree or raises, and either way the stream is closed
Parse ==
    /\ pc = "parse"
    /\ file' = ExitStream(file, idx)
    /\ IF archive[idx].parse = "ok"
       THEN /\ tree' = archive[idx].tree
            /\ pc' = "extract"
            /\ exc' = exc
       ELSE /\ exc' = archive[idx].parse
            /\ pc' = "except"
            /\ tree' = tree
    /\ UNCHANGED <<archive, rating_type, asof, fieldnames, csv_file, zip_file,
                   idx, records, csv, opened, swallowed, fn_vars>>

\* line 97
Extract ==
    /\ pc = "extract"
    /\ LET r == xml_to_records(tree, rating_type, asof)
       IN  IF r.exc = NoExc
           THEN /\ records' = r.records
                /\ pc' = "writerows"
                /\ exc' = exc
           ELSE /\ exc' = r.exc
                /\ pc' = "except"
                /\ records' = records
    /\ UNCHANGED <<archive, rating_type, asof, fieldnames, csv_file, zip_file,
                   file, idx, tree, csv, opened, swallowed, fn_vars>>

\* DictWriter: the keys of a row that are no column (extrasaction is "raise")
WrongFields(record) == DOMAIN record \ Range(fieldnames)

\* DictWriter: the cells of a row, "" for an absent key and for None
Cells(record) ==
    [i \in 1..Len(fieldnames) |->
        IF Get(record, fieldnames[i]) = None THEN ""
        ELSE record[fieldnames[i]]]

\* line 98, writer.writerows(records), one row at a time: a row with a key that
\* is no column raises ValueError, a row the file cannot encode raises
\* UnicodeEncodeError, and the rows written before it stay written
WriteRow ==
    /\ pc = "writerows"
    /\ IF records = <<>>
       THEN /\ pc' = "for"
            /\ UNCHANGED <<records, csv, exc>>
       ELSE IF WrongFields(Head(records)) # {}
       THEN /\ exc' = "ValueError"
            /\ pc' = "except"
            /\ UNCHANGED <<records, csv>>
       ELSE IF Range(Cells(Head(records))) \cap Unencodable # {}
       THEN /\ exc' = "UnicodeEncodeError"
            /\ pc' = "except"
            /\ UNCHANGED <<records, csv>>
       ELSE /\ csv' = Append(csv, [src |-> idx, cells |-> Cells(Head(records))])
            /\ records' = Tail(records)
            /\ pc' = pc
            /\ exc' = exc
    /\ UNCHANGED <<archive, rating_type, asof, fieldnames, csv_file, zip_file,
                   file, idx, tree, opened, swallowed, fn_vars>>

\* a variant of line 99 that also catches the parser's error
Caught_ParseErrorToo(e) == e \in {"UnicodeEncodeError", "ParseError"}

\* line 99: the exceptions the except clause catches
Caught(e) == e = "UnicodeEncodeError"

\* lines 99-100: a caught exception is dropped and the loop goes on; any other
\* leaves the with block of the archive
Except ==
    /\ pc = "except"
    /\ IF Caught(exc)
       THEN /\ exc' = NoExc
            /\ swallowed' = swallowed \cup {idx}
            /\ pc' = "for"
       ELSE /\ pc' = "exit_zip"
            /\ UNCHANGED <<exc, swallowed>>
    /\ UNCHANGED <<archive, rating_type, asof, fieldnames, csv_file, zip_file,
                   file, idx, tree, records, csv, opened, fn_vars>>

\* line 90, leaving the with block of the archive
ExitZip ==
    /\ pc = "exit_zip"
    /\ zip_file' = "closed"
    /\ pc' = "exit_csv"
    /\ UNCHANGED <<archive, rating_type, asof, fieldnames, csv_file, file, idx,
                   tree, records, csv, exc, opened, swallowed, fn_vars>>

\* line 87, leaving the with block of the output file: ratings_to_csv returns,
\* or the exception leaves it
ExitCsv ==
    /\ pc = "exit_csv"
    /\ csv_file' = "closed"
    /\ pc' = IF exc = NoExc THEN "done" ELSE "raised"
    /\ UNCHANGED <<archive, rating_type, asof, fieldnames, zip_file, file, idx,
                   tree, records, csv, exc, opened, swallowed, fn_vars>>

Next ==
    \/ SelectFieldnames
    \/ OpenCsv
    \/ WriteHeader
    \/ OpenZip
    \/ NextFilename
    \/ OpenEntry
    \/ Parse
    \/ Extract
    \/ WriteRow
    \/ Except
    \/ ExitZip
    \/ ExitCsv

Spec == Init /\ [][Next]_vars

-----------------------------------------------------------------------------
(* Properties of the as-of filter, checked under SpecFilter *)

\* the date a record's RAD states
RadOf(record) == fromisoformat(record["RAD"]).date

\* a <= b on dates
DateLeq(a, b) == ~DateLess(b, a)

\* filter_records has been applied to a rating-detail container (OD or IND) and
\* to records that all carry a rating-action-date
FilterCase ==
    /\ called = "filter_records"
    /\ element.tag \in {Q("OD"), Q("IND")}
    /\ \A i \in 1..Len(in_records) : "RAD" \in DOMAIN in_records[i]

\* the input records of a key that are not after the cutoff
Eligible(key) ==
    {i \in 1..Len(in_records) :
        /\ RatingKey(in_records[i]) = key
        /\ DateLeq(RadOf(in_records[i]), fn_asof)}

\* the eligible input records of a key that carry the key's latest eligible date
Latest(key) ==
    {i \in Eligible(key) :
        \A j \in Eligible(key) : DateLeq(RadOf(in_records[j]), RadOf(in_records[i]))}

InputKeys == {RatingKey(in_records[i]) : i \in 1..Len(in_records)}

\* C1: the as-of filter on OD or IND, given records that all carry a RAD, returns
\* at most one record per (RT, RST, RTT) key, returns one for a key exactly when
\* an input record of the key has RAD <= cutoff, that record's RAD is the
\* maximum RAD <= cutoff among the key's input records, and no returned record
\* has a RAD after the cutoff.
C1_AsOfOnePerKeyMaxDate ==
    FilterCase =>
        LET out == result.records
        IN  /\ result.exc = NoExc
            /\ \A a, b \in 1..Len(out) :
                   RatingKey(out[a]) = RatingKey(out[b]) => a = b
            /\ \A a \in 1..Len(out) : RatingKey(out[a]) \in InputKeys
            /\ \A key \in InputKeys :
                   (\E a \in 1..Len(out) : RatingKey(out[a]) = key)
                       <=> Eligible(key) # {}
            /\ \A a \in 1..Len(out) :
                   /\ "RAD" \in DOMAIN out[a]
                   /\ DateLeq(RadOf(out[a]), fn_asof)
                   /\ \E i \in Latest(RatingKey(out[a])) :
                          RadOf(out[a]) = RadOf(in_records[i])

\* C1's case: two keys, one with an older and a newer eligible record and a
\* record after the cutoff, the other with nothing eligible
C1_Witness ==
    /\ FilterCase
    /\ Len(result.records) = 1
    /\ Cardinality(InputKeys) = 2
    /\ \E key \in InputKeys :
           /\ Cardinality(Eligible(key)) = 2
           /\ Cardinality(Latest(key)) = 1
    /\ \E i \in 1..Len(in_records) : DateLess(fn_asof, RadOf(in_records[i]))

\* C2 as stated: on a tie of the latest eligible date within a key, the record
\* returned for the key is the one met last in the input order.
C2_TieLastSeenWins ==
    FilterCase =>
        \A a \in 1..Len(result.records) :
            LET tied == Latest(RatingKey(result.records[a]))
            IN  result.records[a] =
                    in_records[CHOOSE i \in tied : \A j \in tied : j <= i]

\* C2 amended: on a tie of the latest eligible date within a key, the record
\* returned for the key is the one met first in the input order (a later record
\* replaces the retained one only when its date is strictly later).
C2_TieFirstSeenWins ==
    FilterCase =>
        \A a \in 1..Len(result.records) :
            LET tied == Latest(RatingKey(result.records[a]))
            IN  result.records[a] =
                    in_records[CHOOSE i \in tied : \A j \in tied : i <= j]

\* C2's case: the record returned for a key shares its date with a later record
\* of the same key
C2_Witness ==
    /\ FilterCase
    /\ \E a \in 1..Len(result.records) :
           Cardinality(Latest(RatingKey(result.records[a]))) >= 2

-----------------------------------------------------------------------------
(* Properties of the tree flattener, checked under SpecFlatten *)

\* the item elements of a container in document order: those with the item tag
\* that are reached from the container through elements that are not items
RECURSIVE ItemsIn(_, _)
ItemsIn(kids, item_tag) ==
    IF kids = <<>> THEN <<>>
    ELSE (IF kids[1].tag = item_tag THEN <<kids[1]>>
          ELSE ItemsIn(kids[1].kids, item_tag))
         \o ItemsIn(Tail(kids), item_tag)

\* the leaves reached the same way, in document order
RECURSIVE LeavesIn(_, _)
LeavesIn(kids, item_tag) ==
    IF kids = <<>> THEN <<>>
    ELSE (IF kids[1].tag = item_tag THEN <<>>
          ELSE IF kids[1].kids = <<>> THEN <<kids[1]>>
          ELSE LeavesIn(kids[1].kids, item_tag))
         \o LeavesIn(Tail(kids), item_tag)

LocalName(tag) == SubSeq(tag, Len(RATINGS_NAMESPACE) + 1, Len(tag))

\* the fields a sequence of leaves states: for each tag the text of its last leaf
FieldsOf(leaves) ==
    [k \in {LocalName(leaves[i].tag) : i \in 1..Len(leaves)} |->
        leaves[CHOOSE i \in 1..Len(leaves) :
                  /\ LocalName(leaves[i].tag) = k
                  /\ \A j \in 1..Len(leaves) :
                         LocalName(leaves[j].tag) = k => j <= i].text]

\* the items and the shared-context fields of the flattened element
Items == ItemsIn(element.kids, SEQUENCE_TAGS(element.tag))
Shared == FieldsOf(LeavesIn(element.kids, SEQUENCE_TAGS(element.tag)))

\* an item's own leaf fields (an item that is no container has no items itself)
OwnFields(item) == FieldsOf(LeavesIn(item.kids, None))

\* the sub-records: what flattening each item returns, in the order of the items
RECURSIVE SubRecordsOf(_)
SubRecordsOf(items) ==
    IF items = <<>> THEN <<>>
    ELSE element_to_records(items[1], NoTransformation).records
             \o SubRecordsOf(Tail(items))

\* element_to_records has flattened a sequence container with no transformation
FlattenCase ==
    /\ called = "element_to_records"
    /\ fn_asof = NoDate
    /\ SEQUENCE_TAGS(element.tag) # None

\* ... and no item of the container is itself a sequence container
FlatSequenceCase ==
    /\ FlattenCase
    /\ SEQUENCE_TAGS(SEQUENCE_TAGS(element.tag)) = None

\* C3 as stated: on a key that a sub-record and the shared context both have, the
\* returned record keeps the sub-record's value; shared-context fields are added
\* only for the keys the sub-record lacks.
C3_SubRecordValueKept ==
    FlattenCase =>
        LET subs == SubRecordsOf(Items)
        IN  /\ Len(result.records) = Len(subs)
            /\ \A i \in 1..Len(subs) :
                   /\ \A k \in DOMAIN subs[i] :
                          Get(result.records[i], k) = subs[i][k]
                   /\ \A k \in DOMAIN Shared \ DOMAIN subs[i] :
                          Get(result.records[i], k) = Shared[k]

\* C3 amended: on a key that a sub-record and the shared context both have, the
\* returned record takes the shared context's value; a sub-record's own value
\* is kept only for the keys the shared context lacks.
C3_SharedContextValueWins ==
    FlattenCase =>
        LET subs == SubRecordsOf(Items)
        IN  /\ Len(result.records) = Len(subs)
            /\ \A i \in 1..Len(subs) :
                   /\ DOMAIN result.records[i] = DOMAIN subs[i] \cup DOMAIN Shared
                   /\ \A k \in DOMAIN Shared :
                          result.records[i][k] = Shared[k]
                   /\ \A k \in DOMAIN subs[i] \ DOMAIN Shared :
                          result.records[i][k] = subs[i][k]

\* C3's case: a sub-record and the shared context have a key in common, with
\* different values
C3_Witness ==
    /\ FlattenCase
    /\ result.exc = NoExc
    /\ \E i \in 1..Len(SubRecordsOf(Items)) :
           \E k \in DOMAIN SubRecordsOf(Items)[i] \cap DOMAIN Shared :
               SubRecordsOf(Items)[i][k] # Shared[k]

\* how often a value occurs in a sequence
Count(seq, v) == Cardinality({i \in 1..Len(seq) : seq[i] = v})

\* C4 as stated: a container with N items and no nested sequence containers,
\* flattened with no transformation, yields exactly N records, one per item,
\* each with every shared-context field unchanged and with the item's own leaf
\* fields (so none when N = 0).
C4_OneRecordPerItemOwnFields ==
    FlatSequenceCase =>
        /\ result.exc = NoExc
        /\ Len(result.records) = Len(Items)
        /\ \A i \in 1..Len(Items) :
               /\ \A k \in DOMAIN Shared :
                      Get(result.records[i], k) = Shared[k]
               /\ \A k \in DOMAIN OwnFields(Items[i]) :
                      Get(result.records[i], k) = OwnFields(Items[i])[k]

\* the record expected for an item: the shared-context fields, and the item's
\* own leaf fields whose keys the shared context does not have
ExpectedRecord(item) ==
    [k \in DOMAIN OwnFields(item) \cup DOMAIN Shared |->
        IF k \in DOMAIN Shared THEN Shared[k] ELSE OwnFields(item)[k]]

\* C4 amended: such a container yields exactly N records, one per item, each
\* with every shared-context field unchanged and with those of the item's own
\* leaf fields whose keys are not shared-context keys, and nothing else (so no
\* record when N = 0, whatever the shared context holds).
C4_OneRecordPerItem ==
    FlatSequenceCase =>
        LET expected == [i \in 1..Len(Items) |-> ExpectedRecord(Items[i])]
        IN  /\ result.exc = NoExc
            /\ Len(result.records) = Len(Items)
            /\ \A v \in Range(expected) \cup Range(result.records) :
                   Count(result.records, v) = Count(expected, v)

\* C4's cases: two items, one of them beneath a pass-through element, below a
\* container with a shared-context field
C4_Witness ==
    /\ FlatSequenceCase
    /\ Len(Items) = 2
    /\ Len(result.records) = 2
    /\ DOMAIN Shared # {}
    /\ \E i \in 1..Len(element.kids) :
           /\ element.kids[i].tag # SEQUENCE_TAGS(element.tag)
           /\ ItemsIn(element.kids[i].kids, SEQUENCE_TAGS(element.tag)) # <<>>

\* the reference flattening, by recursive descent in document order
RECURSIVE DocumentOrderRecords(_)
RECURSIVE DescendItems(_, _)
DescendItems(items, shared) ==
    IF items = <<>> THEN <<>>
    ELSE LET subs == DocumentOrderRecords(items[1])
         IN  [i \in 1..Len(subs) |->
                 [k \in DOMAIN subs[i] \cup DOMAIN shared |->
                     IF k \in DOMAIN shared THEN shared[k] ELSE subs[i][k]]]
             \o DescendItems(Tail(items), shared)

DocumentOrderRecords(elem) ==
    LET item_tag == SEQUENCE_TAGS(elem.tag)
        shared == FieldsOf(LeavesIn(elem.kids, item_tag))
    IN  IF item_tag = None THEN <<shared>>
        ELSE DescendItems(ItemsIn(elem.kids, item_tag), shared)

\* C10: with no transformation the records of a sequence container come in the
\* document order of its items: all records of an item that starts earlier in
\* the document precede all records of a later one, at whatever depths beneath
\* pass-through elements the two items sit.
C10_RecordsInDocumentOrder ==
    FlattenCase =>
        /\ result.exc = NoExc
        /\ result.records = DocumentOrderRecords(element)

\* C10's case: two items at different depths, the deeper one first, whose
\* records differ
C10_Witness ==
    /\ FlattenCase
    /\ Len(element.kids) >= 2
    /\ element.kids[1].tag # SEQUENCE_TAGS(element.tag)
    /\ ItemsIn(element.kids[1].kids, SEQUENCE_TAGS(element.tag)) # <<>>
    /\ element.kids[2].tag = SEQUENCE_TAGS(element.tag)
    /\ Len(result.records) = 2
    /\ result.records[1] # result.records[2]

-----------------------------------------------------------------------------
(* Properties of the record extractor, checked under SpecExtract *)

\* xml_to_records has been applied with a valid rating type
ExtractCase ==
    /\ called = "xml_to_records"
    /\ fn_type \in {"obligor", "issuer"}

\* every element of the document in document order, the root first
AllElements == <<element>> \o Preorder(element.kids)

\* the positions in a sequence of elements of those with the requested root tag
Tagged(elems) == {i \in 1..Len(elems) : elems[i].tag = RootTag(fn_type)}

\* what xml_to_records returns when it flattens elem
Extracted(elem) ==
    LET flat == element_to_records(elem, Transformation(fn_asof))
    IN  IF flat.exc # NoExc THEN flat
        ELSE [exc |-> NoExc, records |-> AttachAgency(element, flat.records)]

\* C9 as stated: a document with no element of the requested root tag yields no
\* record and no error, with or without a cutoff; when there is such an element,
\* the first one in document order is the one flattened.
C9_FirstElementOfDocument ==
    ExtractCase =>
        LET hits == Tagged(AllElements)
        IN  IF hits = {} THEN result = NoResult
            ELSE result = Extracted(
                     AllElements[CHOOSE i \in hits : \A j \in hits : i <= j])

\* C9 amended: a document with no element of the requested root tag beneath its
\* root element yields no record and no error, with or without a cutoff (the
\* root element itself is not searched); when there is such an element beneath
\* the root, the first of them in document order is the one flattened.
C9_FirstElementBelowRoot ==
    ExtractCase =>
        LET below == Preorder(element.kids)
            hits == Tagged(below)
        IN  IF hits = {} THEN result = NoResult
            ELSE result = Extracted(
                     below[CHOOSE i \in hits : \A j \in hits : i <= j])

\* C9's cases: two elements of the root tag beneath the root whose flattenings
\* differ, the first one giving the records returned
C9_Witness ==
    /\ ExtractCase
    /\ result.exc = NoExc
    /\ result.records # <<>>
    /\ LET below == Preorder(element.kids)
       IN  /\ Cardinality(Tagged(below)) = 2
           /\ \E i, j \in Tagged(below) : Extracted(below[i]) # Extracted(below[j])

-----------------------------------------------------------------------------
(* Properties of the export driver, checked under Spec *)

\* the lines of the output that come from entry i (the header comes from 0)
LinesOf(i) == {l \in 1..Len(csv) : csv[l].src = i}

IsXml(i) == EndsWith(archive[i].name, ".xml")

\* C5 (as stated): when the processing of an entry fails with an encoding error,
\* the output holds no row of that entry, the run does not end with that error,
\* and every later .xml entry is still processed.
C5_EncodingFailureLeavesNoRow ==
    /\ \A i \in swallowed : LinesOf(i) = {}
    /\ pc = "raised" => exc # "UnicodeEncodeError"
    /\ pc = "done" => \A i \in 1..Len(archive) : IsXml(i) => i \in opened

\* C6 as stated: a .xml entry whose parse fails because it is not well-formed
\* contributes no row and is skipped: the run goes on with the remaining entries
\* and does not end with the parse error.
C6_MalformedEntrySkipped ==
    /\ \A i \in opened : archive[i].parse = "ParseError" => LinesOf(i) = {}
    /\ pc = "raised" => exc # "ParseError"

\* C6 amended: a .xml entry whose parse fails because it is not well-formed
\* contributes no row, but it is not skipped: the parse error is not caught
\* (only UnicodeEncodeError is), it leaves ratings_to_csv and ends the run, and
\* no entry after it is processed.
C6_MalformedEntryEndsRun ==
    \A i \in opened :
        archive[i].parse = "ParseError" =>
            /\ LinesOf(i) = {}
            /\ i \notin swallowed
            /\ idx = i
            /\ pc \in {"parse", "except", "exit_zip", "exit_csv", "raised"}
            /\ pc # "parse" => exc = "ParseError"

\* C6's case: the run has ended with the parse error of the first entry, and the
\* .xml entry after it was never opened
C6_Witness ==
    /\ pc = "raised"
    /\ exc = "ParseError"
    /\ Len(archive) = 2
    /\ IsXml(2)
    /\ opened = {1}
    /\ Len(csv) = 1

\* the header expected for a rating type: the agency fields, then the obligor or
\* issuer fields, then the rating fields
ExpectedHeader(rtype) ==
    Keys(AGENCY_FIELDS)
        \o Keys(IF rtype = "obligor" THEN OBLIGOR_FIELDS ELSE ISSUER_FIELDS)
        \o Keys(RATING_FIELDS)

\* C7: for a valid rating type the header is written exactly once, before any
\* entry is opened or parsed (and before the archive is), and it is the full
\* column set of the rating type in its fixed order whatever the archive holds:
\* a run that wrote no row ends with the header alone.
C7_HeaderOnceBeforeEntries ==
    /\ Cardinality(LinesOf(0)) <= 1
    /\ (zip_file # "unopened" \/ opened # {} \/ pc \in {"open_zip", "exit_csv", "done"}) =>
           /\ rating_type \in {"obligor", "issuer"}
           /\ LinesOf(0) = {1}
           /\ csv[1].cells = ExpectedHeader(rating_type)
    /\ pc \in {"start", "open_csv", "write_header"} => csv = <<>> /\ opened = {}

\* C7's case: a run over an archive whose documents gave no record has ended
\* with the header alone
C7_Witness ==
    /\ pc = "done"
    /\ opened # {}
    /\ Len(csv) = 1
    /\ csv[1].cells = ExpectedHeader(rating_type)

\* C8: however the run ends once the output file was opened, the output file is
\* closed, the archive is closed (if it was opened) and no stream is open; a
\* stream is open only while its entry is parsed, so at most one is open and
\* none is open while records are extracted or rows are written.
C8_ResourcesReleased ==
    /\ Cardinality(file) <= 1
    /\ file # {} => pc = "parse" /\ file = {idx}
    /\ pc \in {"extract", "writerows", "except"} => file = {}
    /\ (pc \in {"done", "raised"} /\ csv_file # "unopened") =>
           /\ csv_file = "closed"
           /\ zip_file # "open"
           /\ file = {}
    /\ (pc \in {"done", "raised"} /\ opened # {}) => zip_file = "closed"
    /\ pc = "done" => csv_file = "closed" /\ zip_file = "closed"

\* C8's case: the run ended with an error raised while the second entry was
\* parsed, after both streams had been opened
C8_Witness ==
    /\ pc = "raised"
    /\ exc = "ParseError"
    /\ opened = {1, 2}
    /\ file = {}
    /\ csv_file = "closed"
    /\ zip_file = "closed"

====
